---- MODULE Spec2Model ----
(***************************************************************************)
(* Model of the Wikipedia research assistant: get_soup_for_topic           *)
(* (scraper.py), the extraction helpers (scraper.py), clean_text           *)
(* (summarizer.py), filter_by_keyword (filter.py) and the two pipelines    *)
(* that drive them, index (app.py) and main (cli.py).                      *)
(*                                                                         *)
(* Strings are sequences of one-character strings; the two URL literals    *)
(* "https://en.wikipedia.org" and "/wiki/" are each one element.           *)
(***************************************************************************)
EXTENDS Integers, Sequences, FiniteSets, TLC

(* ------------------------------------------------------------------ *)
(* Bounds of the model                                                 *)
(* ------------------------------------------------------------------ *)
\* largest limit a request carries (the limits run from -1 to MaxLimit)
MaxLimit == 3
\* longest item sequence handed to filter_by_keyword on its own
MaxItems == 2
\* longest text handed to clean_text on its own
MaxTextLen == 4

(* ------------------------------------------------------------------ *)
(* Program constants                                                   *)
(* ------------------------------------------------------------------ *)
\* scraper.py:72 and :87, the only status that counts as success
HTTP_OK == 200
\* scraper.py:129, a paragraph qualifies when it has more words than this
MinWords == 15

(* ------------------------------------------------------------------ *)
(* Strings                                                             *)
(* ------------------------------------------------------------------ *)
Host == "https://en.wikipedia.org"
WikiPath == "/wiki/"

Whitespace == {" ", "\t", "\n"}
Punctuation == {".", ",", "!", "?", ";", ":"}

\* str.replace(a, b) for one-character a and b
Replace(s, a, b) == [k \in 1..Len(s) |-> IF s[k] = a THEN b ELSE s[k]]

\* str.lower(), on the letters the model's strings use
LowerChar(c) ==
    CASE c = "A" -> "a" [] c = "B" -> "b" [] c = "C" -> "c"
      [] c = "E" -> "e" [] c = "I" -> "i" [] c = "S" -> "s"
      [] OTHER -> c
Lower(s) == [k \in 1..Len(s) |-> LowerChar(s[k])]

\* sep.join(parts)
RECURSIVE Join(_, _)
Join(parts, sep) ==
    IF parts = <<>> THEN <<>>
    ELSE IF Len(parts) = 1 THEN parts[1]
    ELSE parts[1] \o sep \o Join(Tail(parts), sep)

\* k in s, for strings
Contains(s, k) ==
    \E p \in 0..(Len(s) - Len(k)) : \A j \in 1..Len(k) : s[p + j] = k[j]

\* len(text.split()): the number of maximal runs of non-whitespace
WordCount(s) ==
    Cardinality({k \in 1..Len(s) :
        /\ s[k] \notin Whitespace
        /\ (k = 1 \/ s[k - 1] \in Whitespace)})

\* seq[:n] taken one element short
SliceOffByOne(s, n) ==
    IF n >= 1
    THEN SubSeq(s, 1, IF n - 1 < Len(s) THEN n - 1 ELSE Len(s))
    ELSE <<>>

\* seq[:n], Python's slice with a possibly negative stop
Slice(s, n) ==
    IF n >= 0
    THEN SubSeq(s, 1, IF n < Len(s) THEN n ELSE Len(s))
    ELSE SubSeq(s, 1, IF Len(s) + n > 0 THEN Len(s) + n ELSE 0)

RECURSIVE LStrip(_)
LStrip(s) ==
    IF s # <<>> /\ s[1] \in Whitespace THEN LStrip(Tail(s)) ELSE s

RECURSIVE RStrip(_)
RStrip(s) ==
    IF s # <<>> /\ s[Len(s)] \in Whitespace
    THEN RStrip(SubSeq(s, 1, Len(s) - 1)) ELSE s

Strip(s) == RStrip(LStrip(s))

\* re.sub(r"\s+", " ", s)
RECURSIVE CollapseWhitespace(_)
CollapseWhitespace(s) ==
    IF s = <<>> THEN <<>>
    ELSE IF s[1] \in Whitespace
         THEN <<" ">> \o CollapseWhitespace(LStrip(s))
         ELSE <<s[1]>> \o CollapseWhitespace(Tail(s))

\* re.sub(r"\s+([.,!?;:])", r"\1", s): a whitespace run goes when a
\* punctuation mark follows it
RECURSIVE DropSpaceBeforePunct(_)
DropSpaceBeforePunct(s) ==
    IF s = <<>> THEN <<>>
    ELSE IF s[1] \in Whitespace
         THEN LET rest == LStrip(s)
                  run  == SubSeq(s, 1, Len(s) - Len(rest))
              IN  IF rest # <<>> /\ rest[1] \in Punctuation
                  THEN DropSpaceBeforePunct(rest)
                  ELSE run \o DropSpaceBeforePunct(rest)
         ELSE <<s[1]>> \o DropSpaceBeforePunct(Tail(s))

\* clean_text without the strip()
clean_text_unstripped(text) == DropSpaceBeforePunct(CollapseWhitespace(text))

clean_text(text) == DropSpaceBeforePunct(Strip(CollapseWhitespace(text)))

(* ------------------------------------------------------------------ *)
(* URLs                                                                *)
(* ------------------------------------------------------------------ *)
build_wiki_url(topic) == <<Host, WikiPath>> \o topic

\* url.rsplit("/wiki/", 1)[-1]
Subtopic(url) ==
    LET marks == {k \in 1..Len(url) : url[k] = WikiPath}
    IN  IF marks = {} THEN url
        ELSE LET last == CHOOSE k \in marks : \A m \in marks : m <= k
             IN  SubSeq(url, last + 1, Len(url))

(* ------------------------------------------------------------------ *)
(* scraper.py: extraction from a parsed page                           *)
(* A soup is [anchors, paras, hasCats, cats]: the href of every <a>    *)
(* under div.mw-parser-output, the get_text(" ", strip=True) of every  *)
(* <p> directly under it, and the <li> texts of #mw-normal-catlinks ul *)
(* ------------------------------------------------------------------ *)
RECURSIVE internal_links(_)
internal_links(anchors) ==
    IF anchors = <<>> THEN <<>>
    ELSE LET href == anchors[1]
         IN  IF /\ href # <<>>
                /\ href[1] = WikiPath
                /\ \A k \in 1..Len(href) : href[k] # ":"
             THEN <<(<<Host>> \o href)>> \o internal_links(Tail(anchors))
             ELSE internal_links(Tail(anchors))

find_internal_links(soup) == internal_links(soup.anchors)

RECURSIVE first_paragraph(_)
first_paragraph(paras) ==
    IF paras = <<>> THEN <<>>
    ELSE IF paras[1] # <<>> /\ WordCount(paras[1]) > MinWords
         THEN paras[1]
         ELSE first_paragraph(Tail(paras))

get_first_paragraph(soup) == first_paragraph(soup.paras)

get_categories(soup) == IF ~soup.hasCats THEN <<>> ELSE soup.cats

(* ------------------------------------------------------------------ *)
(* filter.py                                                           *)
(* ------------------------------------------------------------------ *)
text_blob(item) ==
    Lower(Join(<<item.title, item.excerpt, Join(item.categories, <<" ">>)>>,
               <<" ">>))

\* matches without the keyword's lower()
matches_case_sensitive(item, keywords, fmode) ==
    IF fmode = "and"
    THEN \A k \in 1..Len(keywords) : Contains(text_blob(item), keywords[k])
    ELSE \E k \in 1..Len(keywords) : Contains(text_blob(item), keywords[k])

matches(item, keywords, fmode) ==
    IF fmode = "and"
    THEN \A k \in 1..Len(keywords) : Contains(text_blob(item), Lower(keywords[k]))
    ELSE \E k \in 1..Len(keywords) : Contains(text_blob(item), Lower(keywords[k]))

RECURSIVE filter_by_keyword(_, _, _)
filter_by_keyword(items, keywords, fmode) ==
    IF items = <<>> THEN <<>>
    ELSE IF matches(items[1], keywords, fmode)
         THEN <<items[1]>> \o filter_by_keyword(Tail(items), keywords, fmode)
         ELSE filter_by_keyword(Tail(items), keywords, fmode)

(* ------------------------------------------------------------------ *)
(* The encyclopedia the requests go to                                 *)
(* ------------------------------------------------------------------ *)
RECURSIVE Repeat(_, _)
Repeat(s, n) == IF n = 0 THEN <<>> ELSE s \o Repeat(s, n - 1)

TitleAb == <<"A", "_", "b">>
TitleC == <<"C">>
TitleDe == <<"d", "_", "E">>
Pages == {TitleAb, TitleC, TitleDe}

\* 15 words, 16 words, and 17 words ending in a detached full stop
Para15 == <<"a">> \o Repeat(<<" ", "w">>, 14)
Para16 == <<"B">> \o Repeat(<<" ", "w">>, 15)
ParaSci == <<"S", "c", "i">> \o Repeat(<<" ", "w">>, 15) \o <<" ", ".">>

NoSoup == [anchors |-> <<>>, paras |-> <<>>, hasCats |-> FALSE, cats |-> <<>>]

Wiki(title) ==
    CASE title = TitleAb ->
           [anchors |-> << <<"#", "c">>,
                           <<WikiPath>> \o TitleC,
                           <<WikiPath, "F", ":", "g">>,
                           <<WikiPath>> \o TitleDe,
                           <<WikiPath>> \o TitleC >>,
            paras   |-> << <<>>, Para15, Para16 >>,
            hasCats |-> TRUE,
            cats    |-> << <<"S", " ", "c">>, <<"B">> >>]
      [] title = TitleC ->
           [anchors |-> <<>>,
            paras   |-> << ParaSci >>,
            hasCats |-> TRUE,
            cats    |-> << <<"S", "c", "i">> >>]
      [] title = TitleDe ->
           [anchors |-> << <<WikiPath>> \o TitleC >>,
            paras   |-> << <<"d">> >>,
            hasCats |-> FALSE,
            cats    |-> <<>>]
      [] OTHER -> NoSoup

\* what requests.get(url) can come back with: a page with status 200, an
\* error status, or a raised transport error
GetResponses(url) ==
    (IF Subtopic(url) \in Pages
     THEN {[raised |-> FALSE, status |-> HTTP_OK, soup |-> Wiki(Subtopic(url))]}
     ELSE {})
    \cup {[raised |-> FALSE, status |-> st, soup |-> NoSoup] : st \in {404, 503}}
    \cup {[raised |-> TRUE, status |-> 0, soup |-> NoSoup]}

\* what the search API can come back with: a hit list, an error status, or
\* a raised transport error
SearchTitles == {<<"A", " ", "b">>, <<"C">>}
SearchResponses ==
    {[raised |-> FALSE, status |-> HTTP_OK, hits |-> h] :
        h \in {<<>>} \cup {<<t>> : t \in SearchTitles}}
    \cup {[raised |-> FALSE, status |-> 503, hits |-> <<>>]}
    \cup {[raised |-> TRUE, status |-> 0, hits |-> <<>>]}

(* ------------------------------------------------------------------ *)
(* What a request can carry                                            *)
(* ------------------------------------------------------------------ *)
RawTopics == {<<"A", " ", "b">>, <<"x", "_", "y">>}
Modes == {"links", "summaries", "filtered"}
Limits == (-1)..MaxLimit
KeywordLists == {<<>>, << <<"S", "C", "I">> >>, << <<"e">>, <<"q">> >>}

(* ------------------------------------------------------------------ *)
(* Exceptions                                                          *)
(* ------------------------------------------------------------------ *)
NoExc == [kind |-> "none", name |-> <<>>, status |-> 0]
\* scraper.py:81, "No page found for '{topic}'"
NotFound(t) == [kind |-> "NotFound", name |-> t, status |-> 0]
\* scraper.py:89, "Tried '{match}' but got status {status_code}"
FetchFailed(m, st) == [kind |-> "FetchFailed", name |-> m, status |-> st]
\* raised by requests.get itself
ConnectionError == [kind |-> "ConnectionError", name |-> <<>>, status |-> 0]
\* raised by resp.raise_for_status()
HTTPError(st) == [kind |-> "HTTPError", name |-> <<>>, status |-> st]

NoRet == [soup |-> NoSoup, title |-> <<>>]
NoArticle == [title |-> <<>>, url |-> <<>>, excerpt |-> <<>>, categories |-> <<>>]

(* ------------------------------------------------------------------ *)
(* State                                                               *)
(* ------------------------------------------------------------------ *)
VARIABLES
    pc,            \* where the running handler stands
    consumer,      \* "web" (app.py index) or "cli" (cli.py main)
    raw_topic, mode, limit, keywords,      \* the request's inputs
    stage,         \* which call of get_soup_for_topic runs: "main" or "related"
    topic,         \* get_soup_for_topic's argument
    log,           \* the requests the running call has issued, with their answers
    match,         \* get_soup_for_topic's local: the search's best match
    ret,           \* what get_soup_for_topic returned: (soup, sanitized)
    exc,           \* what get_soup_for_topic raised
    main_soup,     \* the main article's parsed page
    actual_topic,  \* the main article's canonical title
    main_article,  \* app.py's main_article
    all_links,     \* the retained links
    i,             \* position of the loop over all_links
    related,       \* app.py's related, cli.py's results
    skipped,       \* history: positions of all_links the loop left by continue
    error,         \* the error shown to the user
    f_pc, f_items, f_keywords, f_and, f_or,  \* filter_by_keyword called on its own
    c_pc, c_text, c_out, c_again             \* clean_text called on its own

pipeVars == <<pc, consumer, raw_topic, mode, limit, keywords, stage, topic, log,
              match, ret, exc, main_soup, actual_topic, main_article, all_links,
              i, related, skipped, error>>
filterVars == <<f_pc, f_items, f_keywords, f_and, f_or>>
cleanVars == <<c_pc, c_text, c_out, c_again>>
vars == <<pipeVars, filterVars, cleanVars>>

PipeIdle ==
    /\ pc = "idle"
    /\ consumer = "none"
    /\ raw_topic = <<>>
    /\ mode = "links"
    /\ limit = 0
    /\ keywords = <<>>
    /\ stage = "main"
    /\ topic = <<>>
    /\ log = <<>>
    /\ match = <<>>
    /\ ret = NoRet
    /\ exc = NoExc
    /\ main_soup = NoSoup
    /\ actual_topic = <<>>
    /\ main_article = NoArticle
    /\ all_links = <<>>
    /\ i = 0
    /\ related = <<>>
    /\ skipped = {}
    /\ error = NoExc

FilterOff ==
    /\ f_pc = "off"
    /\ f_items = <<>>
    /\ f_keywords = <<>>
    /\ f_and = <<>>
    /\ f_or = <<>>

CleanOff ==
    /\ c_pc = "off"
    /\ c_text = <<>>
    /\ c_out = <<>>
    /\ c_again = <<>>

Init == PipeIdle /\ FilterOff /\ CleanOff

(* ------------------------------------------------------------------ *)
(* A request arrives                                                   *)
(* ------------------------------------------------------------------ *)
\* the handler's locals at entry, and the call get_soup_for_topic(t)
Begin(c, t, m, l, k) ==
    /\ pc \in {"idle", "done", "failed"}
    /\ consumer' = c
    /\ raw_topic' = t
    /\ mode' = m
    /\ limit' = l
    /\ keywords' = k
    /\ stage' = "main"
    /\ topic' = t
    /\ log' = <<>>
    /\ match' = <<>>
    /\ ret' = NoRet
    /\ exc' = NoExc
    /\ main_soup' = NoSoup
    /\ actual_topic' = <<>>
    /\ main_article' = NoArticle
    /\ all_links' = <<>>
    /\ i' = 0
    /\ related' = <<>>
    /\ skipped' = {}
    /\ error' = NoExc
    /\ pc' = "fetch1"
    /\ UNCHANGED <<filterVars, cleanVars>>

index_post ==
    \E t \in RawTopics, m \in Modes, l \in Limits, k \in KeywordLists :
        Begin("web", t, m, l, k)

cli_main ==
    \E t \in RawTopics, m \in Modes, l \in Limits, k \in KeywordLists :
        Begin("cli", t, m, l, k)

(* ------------------------------------------------------------------ *)
(* scraper.py: get_soup_for_topic, one action per request it issues    *)
(* ------------------------------------------------------------------ *)
callerVars == <<consumer, raw_topic, mode, limit, keywords, stage, topic,
                main_soup, actual_topic, main_article, all_links, i, related,
                skipped, error>>

Logged(op, arg, r) == [op |-> op, arg |-> arg, raised |-> r.raised, status |-> r.status]

\* 1) the exact match by direct URL
get_soup_fetch1 ==
    /\ pc = "fetch1"
    /\ LET sanitized == Replace(topic, " ", "_")
           url == build_wiki_url(sanitized)
       IN  \E r \in GetResponses(url) :
             /\ log' = Append(log, Logged("GET", url, r))
             /\ IF r.raised
                THEN /\ exc' = ConnectionError
                     /\ ret' = NoRet
                     /\ pc' = "returned"
                ELSE IF r.status = HTTP_OK
                THEN /\ exc' = NoExc
                     /\ ret' = [soup |-> r.soup, title |-> sanitized]
                     /\ pc' = "returned"
                ELSE /\ exc' = NoExc
                     /\ ret' = NoRet
                     /\ pc' = "search"
    /\ UNCHANGED <<match, callerVars, filterVars, cleanVars>>

\* 2) the fallback: search_wikipedia(search_term)
get_soup_search ==
    /\ pc = "search"
    /\ LET search_term == Replace(topic, "_", " ")
       IN  \E r \in SearchResponses :
             /\ log' = Append(log, Logged("SEARCH", search_term, r))
             /\ IF r.raised
                THEN /\ exc' = ConnectionError
                     /\ match' = <<>>
                     /\ pc' = "returned"
                ELSE IF r.status # HTTP_OK
                THEN /\ exc' = HTTPError(r.status)
                     /\ match' = <<>>
                     /\ pc' = "returned"
                ELSE IF r.hits = <<>> \/ r.hits[1] = <<>>
                THEN /\ exc' = NotFound(topic)
                     /\ match' = <<>>
                     /\ pc' = "returned"
                ELSE /\ exc' = NoExc
                     /\ match' = r.hits[1]
                     /\ pc' = "fetch2"
    /\ UNCHANGED <<ret, callerVars, filterVars, cleanVars>>

\* the fetch of the best match, going back to the search when it fails
get_soup_fetch2_retry ==
    /\ pc = "fetch2"
    /\ LET sanitized == Replace(match, " ", "_")
           url == build_wiki_url(sanitized)
       IN  \E r \in GetResponses(url) :
             /\ log' = Append(log, Logged("GET", url, r))
             /\ IF r.raised
                THEN /\ exc' = ConnectionError
                     /\ ret' = NoRet
                     /\ pc' = "returned"
                ELSE IF r.status # HTTP_OK
                THEN /\ exc' = IF Len(log) < 4 THEN NoExc ELSE FetchFailed(match, r.status)
                     /\ ret' = NoRet
                     /\ pc' = IF Len(log) < 4 THEN "search" ELSE "returned"
                ELSE /\ exc' = NoExc
                     /\ ret' = [soup |-> r.soup, title |-> sanitized]
                     /\ pc' = "returned"
    /\ UNCHANGED <<match, callerVars, filterVars, cleanVars>>

\* the fetch of the best match
get_soup_fetch2 ==
    /\ pc = "fetch2"
    /\ LET sanitized == Replace(match, " ", "_")
           url == build_wiki_url(sanitized)
       IN  \E r \in GetResponses(url) :
             /\ log' = Append(log, Logged("GET", url, r))
             /\ IF r.raised
                THEN /\ exc' = ConnectionError
                     /\ ret' = NoRet
                ELSE IF r.status # HTTP_OK
                THEN /\ exc' = FetchFailed(match, r.status)
                     /\ ret' = NoRet
                ELSE /\ exc' = NoExc
                     /\ ret' = [soup |-> r.soup, title |-> sanitized]
             /\ pc' = "returned"
    /\ UNCHANGED <<match, callerVars, filterVars, cleanVars>>

(* ------------------------------------------------------------------ *)
(* The loop over the retained links, shared shape of app.py and cli.py *)
(* ------------------------------------------------------------------ *)
\* the loop moves to position k: the next call of get_soup_for_topic, or
\* the end of the loop
LoopTo(links, k) ==
    /\ i' = k
    /\ stage' = "related"
    /\ log' = <<>>
    /\ match' = <<>>
    /\ ret' = NoRet
    /\ exc' = NoExc
    /\ IF k <= Len(links)
       THEN /\ topic' = Subtopic(links[k])
            /\ pc' = "fetch1"
       ELSE /\ topic' = <<>>
            /\ pc' = "filter"

EnrichingModes == {"summaries", "filtered"}

(* ------------------------------------------------------------------ *)
(* app.py: index                                                       *)
(* ------------------------------------------------------------------ *)
\* the main lookup raised: the form is rendered again with the error
index_main_failed ==
    /\ pc = "returned" /\ consumer = "web" /\ stage = "main" /\ exc # NoExc
    /\ error' = exc
    /\ pc' = "failed"
    /\ log' = <<>>
    /\ match' = <<>>
    /\ ret' = NoRet
    /\ exc' = NoExc
    /\ UNCHANGED <<consumer, raw_topic, mode, limit, keywords, stage, topic,
                   main_soup, actual_topic, main_article, all_links, i,
                   related, skipped, filterVars, cleanVars>>

index_main_article(soup, title, m) ==
    [title      |-> Replace(title, "_", " "),
     url        |-> <<Host, WikiPath>> \o title,
     excerpt    |-> IF m \in EnrichingModes
                    THEN clean_text(get_first_paragraph(soup)) ELSE <<>>,
     categories |-> IF m \in EnrichingModes
                    THEN get_categories(soup) ELSE <<>>]

\* the main lookup returned: main_article, all_links, and the loop starts
index_main_resolved ==
    /\ pc = "returned" /\ consumer = "web" /\ stage = "main" /\ exc = NoExc
    /\ main_soup' = ret.soup
    /\ actual_topic' = ret.title
    /\ main_article' = index_main_article(ret.soup, ret.title, mode)
    /\ all_links' = Slice(find_internal_links(ret.soup), limit)
    /\ related' = <<>>
    /\ LoopTo(all_links', 1)
    /\ UNCHANGED <<consumer, raw_topic, mode, limit, keywords, skipped, error,
                   filterVars, cleanVars>>

\* a related lookup raised, and the error ends the request
index_related_failed_fatal ==
    /\ pc = "returned" /\ consumer = "web" /\ stage = "related" /\ exc # NoExc
    /\ error' = exc
    /\ pc' = "failed"
    /\ log' = <<>>
    /\ match' = <<>>
    /\ ret' = NoRet
    /\ exc' = NoExc
    /\ UNCHANGED <<consumer, raw_topic, mode, limit, keywords, stage, topic,
                   main_soup, actual_topic, main_article, all_links, i,
                   related, skipped, filterVars, cleanVars>>

\* a related lookup raised: continue
index_related_failed ==
    /\ pc = "returned" /\ consumer = "web" /\ stage = "related" /\ exc # NoExc
    /\ skipped' = skipped \cup {i}
    /\ LoopTo(all_links, i + 1)
    /\ UNCHANGED <<consumer, raw_topic, mode, limit, keywords, main_soup,
                   actual_topic, main_article, all_links, related, error,
                   filterVars, cleanVars>>

\* index's item with the whole url as its title
index_item_url_title(url, page_soup, m) ==
    [title      |-> Replace(url, "_", " "),
     url        |-> url,
     excerpt    |-> IF m \in EnrichingModes
                    THEN clean_text(get_first_paragraph(page_soup)) ELSE <<>>,
     categories |-> IF m \in EnrichingModes
                    THEN get_categories(page_soup) ELSE <<>>]

index_item(url, page_soup, m) ==
    [title      |-> Replace(Subtopic(url), "_", " "),
     url        |-> url,
     excerpt    |-> IF m \in EnrichingModes
                    THEN clean_text(get_first_paragraph(page_soup)) ELSE <<>>,
     categories |-> IF m \in EnrichingModes
                    THEN get_categories(page_soup) ELSE <<>>]

\* a related lookup returned, and the item is put in front
index_related_resolved_prepend ==
    /\ pc = "returned" /\ consumer = "web" /\ stage = "related" /\ exc = NoExc
    /\ related' = <<index_item(all_links[i], ret.soup, mode)>> \o related
    /\ LoopTo(all_links, i + 1)
    /\ UNCHANGED <<consumer, raw_topic, mode, limit, keywords, main_soup,
                   actual_topic, main_article, all_links, skipped, error,
                   filterVars, cleanVars>>

\* a related lookup returned: the item is appended
index_related_resolved ==
    /\ pc = "returned" /\ consumer = "web" /\ stage = "related" /\ exc = NoExc
    /\ related' = Append(related, index_item(all_links[i], ret.soup, mode))
    /\ LoopTo(all_links, i + 1)
    /\ UNCHANGED <<consumer, raw_topic, mode, limit, keywords, main_soup,
                   actual_topic, main_article, all_links, skipped, error,
                   filterVars, cleanVars>>

\* step 5 without the test that keywords is non-empty
index_filter_any_keywords ==
    /\ pc = "filter" /\ consumer = "web"
    /\ related' = IF mode = "filtered"
                  THEN filter_by_keyword(related, keywords, "or")
                  ELSE related
    /\ pc' = "done"
    /\ UNCHANGED <<consumer, raw_topic, mode, limit, keywords, stage, topic,
                   log, match, ret, exc, main_soup, actual_topic, main_article,
                   all_links, i, skipped, error, filterVars, cleanVars>>

\* step 5 and the rendering of results.html
index_filter ==
    /\ pc = "filter" /\ consumer = "web"
    /\ related' = IF mode = "filtered" /\ keywords # <<>>
                  THEN filter_by_keyword(related, keywords, "or")
                  ELSE related
    /\ pc' = "done"
    /\ UNCHANGED <<consumer, raw_topic, mode, limit, keywords, stage, topic,
                   log, match, ret, exc, main_soup, actual_topic, main_article,
                   all_links, i, skipped, error, filterVars, cleanVars>>

(* ------------------------------------------------------------------ *)
(* cli.py: main                                                        *)
(* ------------------------------------------------------------------ *)
\* the main lookup raised, and main goes on with no links
cli_main_failed_swallowed ==
    /\ pc = "returned" /\ consumer = "cli" /\ stage = "main" /\ exc # NoExc
    /\ LoopTo(<<>>, 1)
    /\ UNCHANGED <<consumer, raw_topic, mode, limit, keywords, main_soup,
                   actual_topic, main_article, all_links, related, skipped,
                   error, filterVars, cleanVars>>

\* the main lookup raised: "Error: ..." is printed and main returns
cli_main_failed ==
    /\ pc = "returned" /\ consumer = "cli" /\ stage = "main" /\ exc # NoExc
    /\ error' = exc
    /\ pc' = "failed"
    /\ log' = <<>>
    /\ match' = <<>>
    /\ ret' = NoRet
    /\ exc' = NoExc
    /\ UNCHANGED <<consumer, raw_topic, mode, limit, keywords, stage, topic,
                   main_soup, actual_topic, main_article, all_links, i,
                   related, skipped, filterVars, cleanVars>>

\* the main lookup returned: links, and the loop starts
cli_main_resolved ==
    /\ pc = "returned" /\ consumer = "cli" /\ stage = "main" /\ exc = NoExc
    /\ main_soup' = ret.soup
    /\ actual_topic' = ret.title
    /\ all_links' = Slice(find_internal_links(ret.soup), limit)
    /\ related' = <<>>
    /\ LoopTo(all_links', 1)
    /\ UNCHANGED <<consumer, raw_topic, mode, limit, keywords, main_article,
                   skipped, error, filterVars, cleanVars>>

\* a related lookup raised: continue
cli_related_failed ==
    /\ pc = "returned" /\ consumer = "cli" /\ stage = "related" /\ exc # NoExc
    /\ skipped' = skipped \cup {i}
    /\ LoopTo(all_links, i + 1)
    /\ UNCHANGED <<consumer, raw_topic, mode, limit, keywords, main_soup,
                   actual_topic, main_article, all_links, related, error,
                   filterVars, cleanVars>>

cli_item(url, page_soup, m) ==
    [title      |-> Subtopic(url),
     url        |-> url,
     excerpt    |-> IF m \in EnrichingModes
                    THEN clean_text(get_first_paragraph(page_soup)) ELSE <<>>,
     categories |-> get_categories(page_soup)]

\* a related lookup returned: the item is appended
cli_related_resolved ==
    /\ pc = "returned" /\ consumer = "cli" /\ stage = "related" /\ exc = NoExc
    /\ related' = Append(related, cli_item(all_links[i], ret.soup, mode))
    /\ LoopTo(all_links, i + 1)
    /\ UNCHANGED <<consumer, raw_topic, mode, limit, keywords, main_soup,
                   actual_topic, main_article, all_links, skipped, error,
                   filterVars, cleanVars>>

\* step 4 and the output of the results
cli_filter ==
    /\ pc = "filter" /\ consumer = "cli"
    /\ related' = IF mode = "filtered" /\ keywords # <<>>
                  THEN filter_by_keyword(related, keywords, "or")
                  ELSE related
    /\ pc' = "done"
    /\ UNCHANGED <<consumer, raw_topic, mode, limit, keywords, stage, topic,
                   log, match, ret, exc, main_soup, actual_topic, main_article,
                   all_links, i, skipped, error, filterVars, cleanVars>>

(* ------------------------------------------------------------------ *)
(* The pipelines' specification                                        *)
(* ------------------------------------------------------------------ *)
Next ==
    \/ index_post
    \/ cli_main
    \/ get_soup_fetch1
    \/ get_soup_search
    \/ get_soup_fetch2
    \/ index_main_failed
    \/ index_main_resolved
    \/ index_related_failed
    \/ index_related_resolved
    \/ index_filter
    \/ cli_main_failed
    \/ cli_main_resolved
    \/ cli_related_failed
    \/ cli_related_resolved
    \/ cli_filter

Spec == Init /\ [][Next]_vars

(* ------------------------------------------------------------------ *)
(* filter_by_keyword called on its own, in both of its modes           *)
(* ------------------------------------------------------------------ *)
FilterItemPool ==
    {index_item(build_wiki_url(TitleC), Wiki(TitleC), "summaries"),
     index_item(build_wiki_url(TitleDe), Wiki(TitleDe), "summaries"),
     cli_item(build_wiki_url(TitleAb), Wiki(TitleAb), "links")}

FilterItemSeqs == UNION {[1..n -> FilterItemPool] : n \in 0..MaxItems}

FilterKeywordLists ==
    KeywordLists \cup
    {<< <<"c">> >>, << <<"s", "c", "i">>, <<"c">> >>, << <<"B">>, <<"s", " ", "c">> >>}

InitFilter ==
    /\ PipeIdle
    /\ CleanOff
    /\ f_pc = "call"
    /\ f_items \in FilterItemSeqs
    /\ f_keywords \in FilterKeywordLists
    /\ f_and = <<>>
    /\ f_or = <<>>

filter_call ==
    /\ f_pc = "call"
    /\ f_and' = filter_by_keyword(f_items, f_keywords, "and")
    /\ f_or' = filter_by_keyword(f_items, f_keywords, "or")
    /\ f_pc' = "returned"
    /\ UNCHANGED <<f_items, f_keywords, pipeVars, cleanVars>>

NextFilter == filter_call

SpecFilter == InitFilter /\ [][NextFilter]_vars

(* ------------------------------------------------------------------ *)
(* Vocabulary of the properties                                        *)
(* ------------------------------------------------------------------ *)
Urls(items) == [k \in 1..Len(items) |-> items[k].url]

\* s without the elements at the positions in skip, from position k on
RECURSIVE WithoutPositions(_, _, _)
WithoutPositions(s, skip, k) ==
    IF k > Len(s) THEN <<>>
    ELSE (IF k \in skip THEN <<>> ELSE <<s[k]>>) \o WithoutPositions(s, skip, k + 1)

\* a can be obtained from b by deleting elements
RECURSIVE IsSubseq(_, _)
IsSubseq(a, b) ==
    IF a = <<>> THEN TRUE
    ELSE IF b = <<>> THEN FALSE
    ELSE IF a[1] = b[1] THEN IsSubseq(Tail(a), Tail(b))
    ELSE IsSubseq(a, Tail(b))

\* the internal links of the main page, and the first limit of them
MainLinks == find_internal_links(main_soup)
FirstLinks ==
    [k \in 1..(IF limit < Len(MainLinks) THEN limit ELSE Len(MainLinks)) |-> MainLinks[k]]

InCall == pc \in {"fetch1", "search", "fetch2", "returned"}
DirectFetchFailed == Len(log) >= 1 /\ (log[1].raised \/ log[1].status # HTTP_OK)
DirectFetchSucceeded == Len(log) >= 1 /\ ~log[1].raised /\ log[1].status = HTTP_OK

(* ------------------------------------------------------------------ *)
(* C1                                                                  *)
(* ------------------------------------------------------------------ *)
C1_DropStep ==
    (pc = "returned" /\ stage = "related" /\ exc # NoExc) =>
        /\ related' = related
        /\ main_article' = main_article
        /\ actual_topic' = actual_topic
        /\ all_links' = all_links
        /\ error' = NoExc
        /\ i' = i + 1
        /\ IF i < Len(all_links)
           THEN pc' = "fetch1" /\ topic' = Subtopic(all_links[i + 1])
           ELSE pc' = "filter"

C1_LoopDone ==
    pc \in {"filter", "done"} =>
        /\ error = NoExc
        /\ i = Len(all_links) + 1
        /\ skipped \subseteq 1..Len(all_links)
        /\ (pc = "filter" => Urls(related) = WithoutPositions(all_links, skipped, 1))

\* C1: a failure while resolving one related link is non-fatal: the link is
\* left out of related, the loop goes on to every other retained link, the
\* main article stays as it was, and the request ends in success.
C1_RelatedFailureNonFatal ==
    /\ [](pc = "failed" => stage = "main")
    /\ []C1_LoopDone
    /\ [][C1_DropStep]_vars
    /\ [][(stage = "related" /\ pc # "done") => main_article' = main_article]_vars

C1_Witness ==
    /\ pc = "done" /\ consumer = "web" /\ mode = "links"
    /\ error = NoExc
    /\ main_article # NoArticle
    /\ Len(all_links) = 2
    /\ skipped = {1}
    /\ Len(related) = 1
    /\ related[1].url = all_links[2]

(* ------------------------------------------------------------------ *)
(* C2                                                                  *)
(* ------------------------------------------------------------------ *)
C2_Failed ==
    pc = "failed" =>
        /\ error # NoExc
        /\ stage = "main"
        /\ main_soup = NoSoup
        /\ main_article = NoArticle
        /\ all_links = <<>>
        /\ i = 0
        /\ related = <<>>
        /\ skipped = {}

\* C2: when the main topic's resolution fails, the pipeline call fails with
\* that very error; no links are extracted, no related link is fetched,
\* nothing is filtered and no result is produced: only a new request follows.
C2_MainFailureFatal ==
    /\ []C2_Failed
    /\ [][(pc = "returned" /\ stage = "main" /\ exc # NoExc) =>
             (pc' = "failed" /\ error' = exc)]_vars
    /\ [][pc = "failed" => (pc' = "fetch1" /\ stage' = "main" /\ log' = <<>>)]_vars

C2_Witness ==
    /\ pc = "failed"
    /\ error = FetchFailed(<<"C">>, 404)
    /\ raw_topic = <<"x", "_", "y">>

(* ------------------------------------------------------------------ *)
(* C3                                                                  *)
(* ------------------------------------------------------------------ *)
\* C3: in links mode every article summary handed to a consumer, the main
\* article and each related item, has an empty excerpt and no categories.
C3_LinksModeEmpty ==
    (pc = "done" /\ mode = "links") =>
        /\ main_article.excerpt = <<>>
        /\ main_article.categories = <<>>
        /\ \A k \in 1..Len(related) :
              related[k].excerpt = <<>> /\ related[k].categories = <<>>

(* ------------------------------------------------------------------ *)
(* C4                                                                  *)
(* ------------------------------------------------------------------ *)
\* C4: whenever the first direct fetch of get_soup_for_topic fails, by a
\* non-success status or by a raised transport error, the call goes on to
\* the search, issued with the topic's underscores turned into spaces.
C4_DirectFailureFallsBack ==
    (pc = "returned" /\ DirectFetchFailed) =>
        /\ Len(log) >= 2
        /\ log[2].op = "SEARCH"
        /\ log[2].arg = Replace(topic, "_", " ")

(* ------------------------------------------------------------------ *)
(* C5                                                                  *)
(* ------------------------------------------------------------------ *)
\* C5: every failing call of get_soup_for_topic ends in NotFound naming the
\* original topic, exactly when the search had no hits (two requests, no
\* second fetch), or in FetchFailed naming the match and the status, exactly
\* when the fetch of the match failed (three requests); no other error.
C5_TypedErrorsOnly ==
    (pc = "returned" /\ exc # NoExc) =>
        /\ exc.kind \in {"NotFound", "FetchFailed"}
        /\ exc.kind = "NotFound" =>
              /\ exc.name = topic
              /\ Len(log) = 2 /\ log[2].op = "SEARCH"
        /\ exc.kind = "FetchFailed" =>
              /\ exc.name = match
              /\ Len(log) = 3 /\ log[3].op = "GET"
              /\ exc.status = log[3].status

(* ------------------------------------------------------------------ *)
(* C6                                                                  *)
(* ------------------------------------------------------------------ *)
C6_FastPath ==
    DirectFetchSucceeded =>
        /\ Len(log) = 1
        /\ exc = NoExc
        /\ ret.title = Replace(topic, " ", "_")

C6_NothingCached ==
    /\ Len(log) >= 1
    /\ log[1].op = "GET"
    /\ log[1].arg = build_wiki_url(Replace(topic, " ", "_"))

\* C6 as stated: a call of get_soup_for_topic issues one or two requests,
\* fetches and search counted together: exactly one when the direct fetch
\* succeeds, never more than two.
C6_AtMostTwoRequests ==
    pc = "returned" =>
        /\ Len(log) \in {1, 2}
        /\ C6_FastPath
        /\ C6_NothingCached

\* C6 as amended: a call of get_soup_for_topic issues one to three requests
\* (the direct fetch, the search, the fetch of the match): exactly one when
\* the direct fetch succeeds, with no search and the sanitized input as the
\* title, never more than three, and every call, a repeated one included,
\* starts with the direct fetch of its own topic.
C6_AtMostThreeRequests ==
    /\ InCall => Len(log) <= 3
    /\ pc = "returned" =>
          /\ Len(log) \in 1..3
          /\ C6_FastPath
          /\ C6_NothingCached
          /\ Cardinality({k \in 1..Len(log) : log[k].op = "SEARCH"}) <= 1

\* the second call for a topic already resolved once, by all three requests
C6_Witness ==
    /\ pc = "returned" /\ stage = "related" /\ exc = NoExc
    /\ i = 3 /\ all_links[3] = all_links[1] /\ 1 \notin skipped
    /\ Len(log) = 3

(* ------------------------------------------------------------------ *)
(* C7                                                                  *)
(* ------------------------------------------------------------------ *)
\* C7: for every item sequence and every keyword sequence, the empty one
\* included, each item filter_by_keyword returns in AND mode is also
\* returned in OR mode.
C7_OrContainsAnd ==
    f_pc = "returned" =>
        /\ IsSubseq(f_and, f_or)
        /\ \A k \in 1..Len(f_and) : \E j \in 1..Len(f_or) : f_or[j] = f_and[k]

(* ------------------------------------------------------------------ *)
(* C8                                                                  *)
(* ------------------------------------------------------------------ *)
C8_OneToOne ==
    /\ Len(related) = limit
    /\ \A k \in 1..limit : related[k].url = MainLinks[k]

\* C8 as stated: with a limit L >= 0 and a main page of at least L internal
\* links, related before filtering has exactly L items, one per link, in
\* document order.
C8_ExactlyLimit ==
    (pc = "filter" /\ limit >= 0 /\ Len(MainLinks) >= limit) => C8_OneToOne

\* C8 as amended: the same, provided none of the first L links failed to
\* resolve; a link that failed is left out, and related is shorter by one.
C8_ExactlyLimitWhenAllResolve ==
    (pc = "filter" /\ limit >= 0 /\ Len(MainLinks) >= limit) =>
        /\ Len(related) = limit - Cardinality(skipped)
        /\ skipped = {} => C8_OneToOne

C8_Witness ==
    /\ pc = "filter" /\ limit = 3 /\ Len(MainLinks) = 3
    /\ skipped = {}
    /\ Len(related) = 3
    /\ related[3].url = related[1].url

(* ------------------------------------------------------------------ *)
(* C9                                                                  *)
(* ------------------------------------------------------------------ *)
C9_Bounded ==
    (limit >= 0 /\ stage = "related") =>
        /\ Len(related) <= limit
        /\ IsSubseq(Urls(related), FirstLinks)

\* C9: with a limit >= 0, related is never longer than the limit and its
\* items follow, in order, a selection of the first limit internal links of
\* the main page; the filtering step only deletes items of related: what is
\* left is unchanged and in the same order.
C9_PrefixThenFilter ==
    /\ []C9_Bounded
    /\ [][pc = "filter" => IsSubseq(related', related)]_vars

\* the filter removed one item and kept another, the second of a duplicate
C9_Witness ==
    /\ pc = "done" /\ mode = "filtered" /\ keywords # <<>>
    /\ limit = 3 /\ skipped = {1}
    /\ Len(related) = 1
    /\ related[1].url = all_links[3]

(* ------------------------------------------------------------------ *)
(* C10                                                                 *)
(* ------------------------------------------------------------------ *)
\* some keyword, case-folded, occurs in the item's case-folded title,
\* excerpt and space-joined categories
C10_Keeps(item) ==
    LET cats == Join(item.categories, <<" ">>)
        blob == Lower(item.title) \o <<" ">> \o Lower(item.excerpt)
                    \o <<" ">> \o Lower(cats)
    IN  \E k \in 1..Len(keywords) :
          LET kw == Lower(keywords[k])
          IN  \E p \in 1..(Len(blob) + 1) :
                /\ p + Len(kw) - 1 <= Len(blob)
                /\ SubSeq(blob, p, p + Len(kw) - 1) = kw

\* C10: in filtered mode with keywords, the filter is applied with OR
\* semantics to related only: index's main article is there and stays as it
\* was whether or not it matches, and a related item stays exactly when some
\* keyword, case-folded, occurs in its case-folded title, excerpt and
\* space-joined categories.
C10_FilterRelatedOnly ==
    /\ []((consumer = "web" /\ pc \in {"filter", "done"}) =>
             /\ main_article # NoArticle
             /\ main_article.title = Replace(actual_topic, "_", " "))
    /\ [][(pc = "filter" /\ mode = "filtered" /\ keywords # <<>>) =>
             /\ main_article' = main_article
             /\ related' = SelectSeq(related, C10_Keeps)]_vars

\* the main article matches no keyword and is still there; one related
\* item was kept and one removed
C10_Witness ==
    /\ pc = "done" /\ consumer = "web" /\ mode = "filtered" /\ keywords # <<>>
    /\ main_article # NoArticle /\ ~C10_Keeps(main_article)
    /\ skipped = {} /\ Len(all_links) = 2
    /\ Len(related) = 1
    /\ C10_Keeps(related[1])

(* ------------------------------------------------------------------ *)
(* C11                                                                 *)
(* ------------------------------------------------------------------ *)
\* what a run in summaries mode makes of the page a lookup returned
C11_SummariesMain(soup, title) ==
    [title      |-> Replace(title, "_", " "),
     url        |-> <<Host, WikiPath>> \o title,
     excerpt    |-> clean_text(get_first_paragraph(soup)),
     categories |-> get_categories(soup)]

C11_SummariesItem(c, url, soup) ==
    [title      |-> IF c = "web" THEN Replace(Subtopic(url), "_", " ")
                    ELSE Subtopic(url),
     url        |-> url,
     excerpt    |-> clean_text(get_first_paragraph(soup)),
     categories |-> get_categories(soup)]

C11_EmptyFiltered == mode = "filtered" /\ keywords = <<>>

\* on the same answer of the lookup, the step builds what summaries mode builds
C11_SameStep ==
    /\ (pc = "returned" /\ stage = "main" /\ exc = NoExc) =>
          /\ consumer = "web" => main_article' = C11_SummariesMain(ret.soup, ret.title)
          /\ all_links' = [k \in 1..Len(all_links') |-> find_internal_links(ret.soup)[k]]
          /\ related' = <<>>
    /\ (pc = "returned" /\ stage = "related" /\ exc = NoExc) =>
          /\ related' = Append(related, C11_SummariesItem(consumer, all_links[i], ret.soup))
          /\ main_article' = main_article
    /\ pc = "filter" =>
          /\ related' = related
          /\ main_article' = main_article
          /\ pc' = "done"

\* C11: a run in filtered mode with no keywords produces, on the same topic,
\* limit and answers, the main article and the related items of a run in
\* summaries mode: every step builds what summaries mode builds from the same
\* answer, and the filtering step leaves related as it is (the keyword filter
\* is not called with an empty keyword sequence).
C11_EmptyFilteredIsSummaries ==
    [][(C11_EmptyFiltered \/ mode = "summaries") => C11_SameStep]_vars

\* two enriched related items reach the result of a filtered run without
\* keywords; the keyword filter in OR mode would have removed both
C11_Witness ==
    /\ pc = "done" /\ consumer = "web" /\ C11_EmptyFiltered
    /\ main_article.excerpt # <<>>
    /\ Len(related) = 2
    /\ related[1].excerpt # <<>>
    /\ filter_by_keyword(related, keywords, "or") = <<>>

(* ------------------------------------------------------------------ *)
(* clean_text called on its own, and again on its own result           *)
(* ------------------------------------------------------------------ *)
CleanAlphabet == {"a", " ", "\n", ".", ","}
CleanTexts == UNION {[1..n -> CleanAlphabet] : n \in 0..MaxTextLen}

InitClean ==
    /\ PipeIdle
    /\ FilterOff
    /\ c_pc = "call"
    /\ c_text \in CleanTexts
    /\ c_out = <<>>
    /\ c_again = <<>>

clean_call ==
    /\ c_pc = "call"
    /\ c_out' = clean_text(c_text)
    /\ c_again' = clean_text(c_out')
    /\ c_pc' = "returned"
    /\ UNCHANGED <<c_text, pipeVars, filterVars>>

NextClean == clean_call

SpecClean == InitClean /\ [][NextClean]_vars

(* ------------------------------------------------------------------ *)
(* C12                                                                 *)
(* ------------------------------------------------------------------ *)
\* C12: for every text x, clean_text(clean_text(x)) = clean_text(x), and
\* clean_text(x) has no two consecutive spaces, neither starts nor ends with
\* whitespace, and has no whitespace right before one of . , ! ? ; :
C12_CleanIdempotentAndTidy ==
    c_pc = "returned" =>
        /\ c_again = c_out
        /\ \A k \in 1..(Len(c_out) - 1) : ~(c_out[k] = " " /\ c_out[k + 1] = " ")
        /\ c_out # <<>> =>
              (c_out[1] \notin Whitespace /\ c_out[Len(c_out)] \notin Whitespace)
        /\ \A k \in 1..(Len(c_out) - 1) :
              ~(c_out[k] \in Whitespace /\ c_out[k + 1] \in Punctuation)

\* a text with a run of two different whitespace characters before a
\* full stop
C12_Witness ==
    /\ c_pc = "returned"
    /\ c_text = <<"a", " ", "\n", ".">>
    /\ c_out = <<"a", ".">>

(* ------------------------------------------------------------------ *)
(* C13                                                                 *)
(* ------------------------------------------------------------------ *)
\* seg is what follows the last "/wiki/" of url
C13_LastSegment(url, seg) ==
    /\ Len(seg) < Len(url)
    /\ url[Len(url) - Len(seg)] = WikiPath
    /\ SubSeq(url, Len(url) - Len(seg) + 1, Len(url)) = seg
    /\ \A k \in 1..Len(seg) : seg[k] # WikiPath

\* the item's title is the last segment of its url: as it stands for
\* cli.py, with spaces for underscores for app.py
C13_TitledByUrl(c, item) ==
    \E n \in 0..Len(item.url) :
        LET seg == SubSeq(item.url, Len(item.url) - n + 1, Len(item.url))
        IN  /\ C13_LastSegment(item.url, seg)
            /\ item.title = IF c = "web"
                            THEN [k \in 1..n |-> IF seg[k] = "_" THEN " " ELSE seg[k]]
                            ELSE seg

\* the lookup went through the search and fetched the page of the match
C13_ViaFallback ==
    /\ pc = "returned" /\ exc = NoExc /\ Len(log) = 3
    /\ ret.title = Replace(match, " ", "_")

\* the related item a returned lookup adds: url and title of the link,
\* excerpt and categories of the page the lookup returned
C13_RelatedStep ==
    (pc = "returned" /\ stage = "related" /\ exc = NoExc) =>
        LET item == related'[Len(related')]
        IN  /\ Len(related') = Len(related) + 1
            /\ item.url = all_links[i]
            /\ C13_TitledByUrl(consumer, item)
            /\ mode \in {"summaries", "filtered"} =>
                  item.excerpt = clean_text(get_first_paragraph(ret.soup))
            /\ (mode \in {"summaries", "filtered"} \/ consumer = "cli") =>
                  item.categories = get_categories(ret.soup)
            /\ C13_ViaFallback => ret.soup = Wiki(Replace(match, " ", "_"))

\* the main article of a lookup that went through the search
C13_MainStep ==
    (C13_ViaFallback /\ stage = "main" /\ consumer = "web") =>
        /\ main_article'.title = Replace(match, "_", " ")
        /\ main_article'.url = <<Host, WikiPath>> \o Replace(match, " ", "_")

\* C13: every item of related carries the url of its link and a title taken
\* from that url (what follows the last "/wiki/"), also when the lookup of
\* the link went through the search to another title: then excerpt and
\* categories are those of the page the search led to, title and url still
\* those of the link; the main article's title is the title the search led to.
C13_RelatedKeepsLinkIdentity ==
    /\ [](\A k \in 1..Len(related) :
             /\ \E j \in 1..Len(all_links) : related[k].url = all_links[j]
             /\ C13_TitledByUrl(consumer, related[k]))
    /\ [][C13_RelatedStep]_vars
    /\ [][C13_MainStep]_vars

\* the misspelt topic x_y resolved to "A b"; the link to C resolved through
\* the search to the page "A b" as well: the item is titled C and carries
\* the excerpt and categories of "A b"
C13_Witness ==
    /\ pc = "done" /\ consumer = "web" /\ mode = "summaries"
    /\ raw_topic = <<"x", "_", "y">>
    /\ main_article.title = <<"A", " ", "b">>
    /\ Len(related) >= 1
    /\ related[1].url = build_wiki_url(TitleC)
    /\ related[1].title = <<"C">>
    /\ related[1].excerpt = Para16
    /\ related[1].categories = Wiki(TitleAb).cats

====
